---- MODULE Spec2Model ----
(***************************************************************************)
(* Model of the financial dashboard client (src/frontend/src/App.js):      *)
(* the component state, the streaming client with its reconnect timers,    *)
(* the stream message handler and the alert form.                          *)
(*                                                                         *)
(* Numbers that are prices are kept in hundredths (191.23 is 19123).       *)
(* A JavaScript string that the code parses is a sequence of characters.   *)
(* One action is one task of the browser's event loop: a user event with   *)
(* the React commit that follows it, a WebSocket event with its handlers,  *)
(* a timer callback, or the continuation of an awaited request.            *)
(***************************************************************************)
EXTENDS Integers, Sequences, FiniteSets, Bags, TLC

VARIABLES
    selectedSymbol,       \* useState("AAPL")
    symbols,              \* useState([]): the symbols offered by the select
    currentData,          \* useState(null): the latest market_data message
    indicators,           \* useState({})
    aiAnalysis,           \* useState(null)
    isConnected,          \* useState(false)
    priceHistory,         \* useState([])
    alerts,               \* useState([])
    alertPrice,           \* useState(""): the text of the price input
    alertType,            \* useState("above")
    recentAnalyses,       \* useState([])
    wsRef,                \* useRef(null): 0 is null, else an index of sockets
    reconnectTimeoutRef,  \* useRef(null): 0 is null, else an index of timeouts
    sockets,              \* every WebSocket constructed so far, in order
    timeouts,             \* every setTimeout made so far, in order
    inflight,             \* bag of the axios requests awaiting their response
    phase,                \* where the component is in its life cycle
    notice,               \* the toast raised by the last task, NoToast if none
    handled,              \* history variable: samples of the market_data handled
    tick,                 \* the feed's clock: the timestamp of the next market_data
    logged,               \* the lines the last task wrote to the console
    arrivals,             \* per list fetched: the last response and the overtaken requests
    meetingTitle,         \* summarizer, useState(""): the text of the title input
    meetingContent,       \* summarizer, useState(""): the text of the content area
    selectedFile,         \* summarizer, useState(null)
    isLoading,            \* summarizer, useState(false)
    summary,              \* summarizer, useState(null)
    meetings,             \* summarizer, useState([])
    activeTab             \* summarizer, useState("summarize")

vars == <<selectedSymbol, symbols, currentData, indicators, aiAnalysis,
          isConnected, priceHistory, alerts, alertPrice, alertType,
          recentAnalyses, wsRef, reconnectTimeoutRef, sockets, timeouts,
          inflight, phase, notice, handled, tick, logged, arrivals,
          meetingTitle, meetingContent, selectedFile, isLoading, summary,
          meetings, activeTab>>

\* The state of the summarizer's component (src/unnamed/part_000).
summarizerVars == <<meetingTitle, meetingContent, selectedFile, isLoading,
                    summary, meetings, activeTab>>

uiVars == <<selectedSymbol, symbols, currentData, indicators, aiAnalysis,
            priceHistory, alerts, alertPrice, alertType, recentAnalyses>>

(***************************************************************************)
(* Bounds of the exploration.                                              *)
(***************************************************************************)
MaxSockets == 3
MaxMsgs == 1
MaxSocketsAside == 2
MaxTicks == 52
MaxPosts == 1
MaxSummaries == 2
MaxFetches == 2
MaxInFlight == 4

(***************************************************************************)
(* Program constants.                                                      *)
(***************************************************************************)
InitialSymbol == "AAPL"
HistoryCap == 50
ReconnectDelayMs == 3000

Null == [type |-> "null"]
EmptyObject == [k \in {} |-> 0]
NoToast == "none"

SymbolLists == {<<"AAPL", "MSFT">>}
Prices == {19123, 19000}

(***************************************************************************)
(* The WebSocket objects.                                                  *)
(***************************************************************************)
Live == {"CONNECTING", "OPEN"}

\* WebSocket.close(): a connecting or open socket starts closing; on a
\* closing or closed socket the call does nothing.  ref = 0 is the null ref,
\* on which the code does not call close.
WsClose(socks, ref) ==
    IF ref # 0 /\ socks[ref].readyState \in Live
    THEN [socks EXCEPT ![ref].readyState = "CLOSING"]
    ELSE socks

\* clearTimeout(ref): a pending timer is cancelled, anything else is ignored.
clearTimeout(tms, ref) ==
    IF ref # 0 /\ tms[ref].state = "pending"
    THEN [tms EXCEPT ![ref].state = "cleared"]
    ELSE tms

\* setIsConnected: React drops a state update of an unmounted component.
setIsConnected(v) == isConnected' = IF phase = "unmounted" THEN isConnected ELSE v

\* What connectWebSocket writes to the console.
ConnectLog(throws) ==
    <<"log: Connecting to WebSocket">>
    \o (IF throws THEN <<"error: Error creating WebSocket">> ELSE <<>>)

\* Variant of connectWebSocket without the close of the existing socket.
ConnectWithoutClose(symbol, throws) ==
    IF throws
    THEN /\ UNCHANGED <<sockets, wsRef>>
         /\ setIsConnected(FALSE)
    ELSE /\ sockets' = Append(sockets, [symbol |-> symbol, readyState |-> "CONNECTING"])
         /\ wsRef' = Len(sockets) + 1
         /\ UNCHANGED isConnected
\* connectWebSocket(symbol); throws says whether new WebSocket(wsUrl) throws.
connectWebSocket(symbol, throws) ==
    LET closed == WsClose(sockets, wsRef) IN
    IF throws
    THEN /\ sockets' = closed
         /\ wsRef' = wsRef
         /\ setIsConnected(FALSE)
    ELSE /\ sockets' = Append(closed, [symbol |-> symbol, readyState |-> "CONNECTING"])
         /\ wsRef' = Len(sockets) + 1
         /\ UNCHANGED isConnected

\* Variant of the cleanup that does not close the socket.
CleanupLeavesSocket == sockets
\* The cleanup of the effect on selectedSymbol.
CleanupSockets == WsClose(sockets, wsRef)
CleanupTimeouts == clearTimeout(timeouts, reconnectTimeoutRef)

(***************************************************************************)
(* Life cycle of the component.                                            *)
(***************************************************************************)
\* An axios call: the method and path, and what it carries.
Request(kind, arg) == [kind |-> kind, arg |-> arg]
GetSymbols == Request("GET /api/symbols", EmptyObject)
GetAlerts == Request("GET /api/alerts", EmptyObject)
GetAnalysis(symbol) == Request("GET /api/analysis/", [symbol |-> symbol])
PostAlerts(alertData) == Request("POST /api/alerts", alertData)
GetMeetings == Request("GET /api/meetings", EmptyObject)

\* The number of requests of a kind that are in flight.
InFlight(kind) ==
    LET of == {r \in BagToSet(inflight) : r.kind = kind}
    IN  BagCardinality([r \in of |-> inflight[r]])

\* The fetches of a list: the calls whose response replaces a list held in
\* the state.  For each kind, arrivals keeps the data and the standing of
\* the last response that arrived, and how many of the requests in flight,
\* the oldest ones, have been overtaken: a request issued after them has
\* been answered already.  A response is stale when it answers one of those.
ListKinds == {"GET /api/alerts", "GET /api/analysis/", "GET /api/meetings"}
NoArrival == [overtaken |-> 0, stale |-> FALSE, data |-> <<>>]

\* The response to the k-th oldest request of its kind in flight arrives.
Answered(kind, k, data) ==
    [arrivals EXCEPT ![kind] =
        [overtaken |-> IF k <= @.overtaken THEN @.overtaken - 1 ELSE k - 1,
         stale |-> k <= @.overtaken,
         data |-> data]]

\* The k-th oldest request of its kind in flight fails.
Failed(kind, k) ==
    [arrivals EXCEPT ![kind].overtaken = IF k <= @ THEN @ - 1 ELSE @]

\* Variant of the store that drops a response to an overtaken request.
StoredInOrder(held, data, stale) == IF stale THEN held ELSE data
\* What a fetch stores when its response arrives: the data of the response,
\* whatever is held and whichever request the response answers.
Stored(held, data, stale) == data

Init ==
    /\ selectedSymbol = InitialSymbol
    /\ symbols = <<>>
    /\ currentData = Null
    /\ indicators = EmptyObject
    /\ aiAnalysis = Null
    /\ isConnected = FALSE
    /\ priceHistory = <<>>
    /\ alerts = <<>>
    /\ alertPrice = <<>>
    /\ alertType = "above"
    /\ recentAnalyses = <<>>
    /\ wsRef = 0
    /\ reconnectTimeoutRef = 0
    /\ sockets = <<>>
    /\ timeouts = <<>>
    /\ inflight = EmptyBag
    /\ phase = "init"
    /\ notice = NoToast
    /\ handled = <<>>
    /\ tick = 1
    /\ logged = <<>>
    /\ arrivals = [kind \in ListKinds |-> NoArrival]
    /\ meetingTitle = <<>>
    /\ meetingContent = <<>>
    /\ selectedFile = Null
    /\ isLoading = FALSE
    /\ summary = Null
    /\ meetings = <<>>
    /\ activeTab = "summarize"

\* The two effects of the first commit: the three fetches, then the connect.
Mount(throws) ==
    /\ phase = "init"
    /\ inflight' = inflight (+) SetToBag({GetSymbols, GetAlerts,
                                          GetAnalysis(selectedSymbol)})
    /\ IF selectedSymbol # ""
       THEN connectWebSocket(selectedSymbol, throws)
       ELSE UNCHANGED <<sockets, wsRef, isConnected>>
    /\ phase' = "idle"
    /\ notice' = NoToast
    /\ UNCHANGED <<uiVars, reconnectTimeoutRef, timeouts, handled, tick>>
    /\ logged' = IF selectedSymbol # "" THEN ConnectLog(throws) ELSE <<>>
    /\ UNCHANGED <<arrivals, summarizerVars>>

\* The select's onValueChange: setSelectedSymbol(s), the re-render, and the
\* cleanup of the previous effect.  The effect itself is the next step.
setSelectedSymbol(s) ==
    /\ phase = "idle"
    /\ \E i \in 1..Len(symbols) : symbols[i] = s
    /\ s # selectedSymbol
    /\ selectedSymbol' = s
    /\ sockets' = CleanupSockets
    /\ timeouts' = CleanupTimeouts
    /\ phase' = "effect"
    /\ notice' = NoToast
    /\ UNCHANGED <<symbols, currentData, indicators, aiAnalysis, isConnected,
                   priceHistory, alerts, alertPrice, alertType, recentAnalyses,
                   wsRef, reconnectTimeoutRef, inflight, handled, tick>>
    /\ logged' = <<>>
    /\ UNCHANGED <<arrivals, summarizerVars>>

\* The effect on selectedSymbol, run in the same commit right after the cleanup.
RunEffect(throws) ==
    /\ phase = "effect"
    /\ IF selectedSymbol # ""
       THEN connectWebSocket(selectedSymbol, throws)
       ELSE UNCHANGED <<sockets, wsRef, isConnected>>
    /\ phase' = "idle"
    /\ notice' = NoToast
    /\ UNCHANGED <<uiVars, reconnectTimeoutRef, timeouts, inflight, handled, tick>>
    /\ logged' = IF selectedSymbol # "" THEN ConnectLog(throws) ELSE <<>>
    /\ UNCHANGED <<arrivals, summarizerVars>>

\* The component is removed: only the cleanup runs.
Unmount ==
    /\ phase = "idle"
    /\ sockets' = CleanupSockets
    /\ timeouts' = CleanupTimeouts
    /\ phase' = "unmounted"
    /\ notice' = NoToast
    /\ UNCHANGED <<uiVars, isConnected, wsRef, reconnectTimeoutRef, inflight,
                   handled, tick>>
    /\ logged' = <<>>
    /\ UNCHANGED <<arrivals, summarizerVars>>

(***************************************************************************)
(* Events of a WebSocket and of the timers.  They are tasks of the event   *)
(* loop, so they run between commits, also after the unmount.              *)
(***************************************************************************)
Quiet == phase \in {"idle", "unmounted"}

\* ws.onopen
onopen(id) ==
    /\ Quiet
    /\ sockets[id].readyState = "CONNECTING"
    /\ sockets' = [sockets EXCEPT ![id].readyState = "OPEN"]
    /\ setIsConnected(TRUE)
    /\ notice' = "success: connected"
    /\ UNCHANGED <<uiVars, wsRef, reconnectTimeoutRef, timeouts, inflight,
                   phase, handled, tick>>
    /\ logged' = <<"log: WebSocket connected">>
    /\ UNCHANGED <<arrivals, summarizerVars>>

\* The timer that ws.onclose sets.
ReconnectTimeout(symbol) ==
    [symbol |-> symbol, delay |-> ReconnectDelayMs, state |-> "pending"]

\* Variant of the close task that sets no timer after an error.
oncloseAfterCleanCloseOnly(id, failed) ==
    /\ Quiet
    /\ sockets[id].readyState # "CLOSED"
    /\ sockets' = [sockets EXCEPT ![id].readyState = "CLOSED"]
    /\ setIsConnected(FALSE)
    /\ notice' = IF failed THEN "error: connection" ELSE NoToast
    /\ IF failed
       THEN UNCHANGED <<timeouts, reconnectTimeoutRef>>
       ELSE /\ timeouts' = Append(timeouts, ReconnectTimeout(sockets[id].symbol))
            /\ reconnectTimeoutRef' = Len(timeouts) + 1
    /\ UNCHANGED <<uiVars, wsRef, inflight, phase, handled, tick>>
    /\ logged' = (IF failed THEN <<"error: WebSocket error">> ELSE <<>>) \o <<"log: WebSocket closed">>
    /\ UNCHANGED <<arrivals, summarizerVars>>
\* The task that closes a socket: readyState becomes CLOSED, then ws.onerror
\* runs if the connection failed, then ws.onclose.
onclose(id, failed) ==
    /\ Quiet
    /\ sockets[id].readyState # "CLOSED"
    /\ sockets' = [sockets EXCEPT ![id].readyState = "CLOSED"]
    /\ setIsConnected(FALSE)
    /\ notice' = IF failed THEN "error: connection" ELSE NoToast
    /\ timeouts' = Append(timeouts, ReconnectTimeout(sockets[id].symbol))
    /\ reconnectTimeoutRef' = Len(timeouts) + 1
    /\ UNCHANGED <<uiVars, wsRef, inflight, phase, handled, tick>>
    /\ logged' = (IF failed THEN <<"error: WebSocket error">> ELSE <<>>) \o <<"log: WebSocket closed">>
    /\ UNCHANGED <<arrivals, summarizerVars>>

\* The callback of a reconnect timer.
TimerFire(t, throws) ==
    /\ Quiet
    /\ timeouts[t].state = "pending"
    /\ timeouts' = [timeouts EXCEPT ![t].state = "fired"]
    /\ connectWebSocket(timeouts[t].symbol, throws)
    /\ notice' = NoToast
    /\ UNCHANGED <<uiVars, reconnectTimeoutRef, inflight, phase, handled, tick>>
    /\ logged' = <<"log: Attempting to reconnect...">> \o ConnectLog(throws)
    /\ UNCHANGED <<arrivals, summarizerVars>>

(***************************************************************************)
(* REST responses.                                                         *)
(***************************************************************************)
\* fetchSymbols, after the await.
fetchSymbols(list) ==
    /\ Quiet
    /\ BagIn(GetSymbols, inflight)
    /\ inflight' = inflight (-) SetToBag({GetSymbols})
    /\ symbols' = IF phase = "unmounted" THEN symbols ELSE list
    /\ notice' = NoToast
    /\ UNCHANGED <<selectedSymbol, currentData, indicators, aiAnalysis, isConnected,
                   priceHistory, alerts, alertPrice, alertType, recentAnalyses,
                   wsRef, reconnectTimeoutRef, sockets, timeouts, phase, handled, tick>>
    /\ logged' = <<>>
    /\ UNCHANGED <<arrivals, summarizerVars>>

(***************************************************************************)
(* Stream messages.  A payload is the text of a message event: JSON.parse  *)
(* throws on a payload that is not well formed, else gives its value.      *)
(***************************************************************************)
Volumes == {1500000}
IndicatorSets == {[rsi |-> 5500]}

Sample(data) ==
    [timestamp |-> data.timestamp, price |-> data.price, volume |-> data.volume]

\* The market_data messages that the feed of `symbol` can send at time t;
\* the indicators field may be missing.
MarketData(symbol, t) ==
    {[type |-> "market_data", symbol |-> symbol, timestamp |-> t, price |-> p,
      volume |-> v, indicators |-> ind] :
        p \in Prices, v \in Volumes, ind \in IndicatorSets}
    \cup {[type |-> "market_data", symbol |-> symbol, timestamp |-> t, price |-> p,
           volume |-> v] : p \in Prices, v \in Volumes}

AiAnalysisMsgs(symbol, t) ==
    {[type |-> "ai_analysis", symbol |-> symbol, timestamp |-> t,
      recommendation |-> r] : r \in {"HOLD", "BUY"}}

OtherMsgs == {[type |-> "connection", message |-> "connected"],
              [type |-> "heartbeat"],
              [message |-> "untyped"]}

\* array.slice(-n): the last n elements, all of them when there are fewer.
SliceLast(seq, n) ==
    IF Len(seq) <= n THEN seq ELSE SubSeq(seq, Len(seq) - n + 1, Len(seq))

\* Variant of the updater that keeps the first 50 samples.
DropNewest(prev, data) == IF Len(prev) < HistoryCap THEN Append(prev, Sample(data)) ELSE prev
\* The updater passed to setPriceHistory.
AppendHistory(prev, data) == SliceLast(Append(prev, Sample(data)), HistoryCap)

\* A state setter: React drops the update of an unmounted component.
Set(old, new) == IF phase = "unmounted" THEN old ELSE new

\* fetchRecentAnalyses as connectWebSocket holds it: connectWebSocket is
\* memoized with no dependencies, so the handler it calls is the one of the
\* first render, whose selectedSymbol is the initial one.
FirstRenderSymbol == InitialSymbol

\* Variant of the handler that does not refresh the list of analyses.
handleWebSocketMessageWithoutRefresh(data) ==
    LET type == IF "type" \in DOMAIN data THEN data.type ELSE "undefined" IN
    CASE type = "market_data" ->
            /\ currentData' = Set(currentData, data)
            /\ indicators' = Set(indicators, IF "indicators" \in DOMAIN data
                                             THEN data.indicators ELSE EmptyObject)
            /\ priceHistory' = Set(priceHistory, AppendHistory(priceHistory, data))
            /\ handled' = Append(handled, Sample(data))
            /\ tick' = tick + 1
            /\ notice' = NoToast
            /\ logged' = <<>>
            /\ UNCHANGED <<aiAnalysis, inflight>>
      [] type = "ai_analysis" ->
            /\ aiAnalysis' = Set(aiAnalysis, data)
            /\ notice' = "success: analysis"
            /\ logged' = <<>>
            /\ UNCHANGED <<currentData, indicators, priceHistory, handled, tick,
                           inflight>>
      [] OTHER ->
            /\ notice' = NoToast
            /\ logged' = IF type = "connection"
                          THEN <<"log: Connection confirmed">>
                          ELSE <<"log: Unknown message type">>
            /\ UNCHANGED <<currentData, indicators, priceHistory, handled, tick,
                           aiAnalysis, inflight>>
\* Variant of the handler that takes a message of an unknown type for an
\* analysis.
handleWebSocketMessageDefaulting(data) ==
    LET type == IF "type" \in DOMAIN data THEN data.type ELSE "undefined" IN
    CASE type = "market_data" ->
            /\ currentData' = Set(currentData, data)
            /\ indicators' = Set(indicators, IF "indicators" \in DOMAIN data
                                             THEN data.indicators ELSE EmptyObject)
            /\ priceHistory' = Set(priceHistory, AppendHistory(priceHistory, data))
            /\ handled' = Append(handled, Sample(data))
            /\ tick' = tick + 1
            /\ notice' = NoToast
            /\ logged' = <<>>
            /\ UNCHANGED <<aiAnalysis, inflight>>
      [] type = "ai_analysis" ->
            /\ aiAnalysis' = Set(aiAnalysis, data)
            /\ notice' = "success: analysis"
            /\ inflight' = inflight (+) SetToBag({GetAnalysis(FirstRenderSymbol)})
            /\ logged' = <<>>
            /\ UNCHANGED <<currentData, indicators, priceHistory, handled, tick>>
      [] OTHER ->
            /\ notice' = NoToast
            /\ logged' = IF type = "connection"
                          THEN <<"log: Connection confirmed">>
                          ELSE <<"log: Unknown message type">>
            /\ aiAnalysis' = IF type = "connection" THEN aiAnalysis
                                                   ELSE Set(aiAnalysis, data)
            /\ UNCHANGED <<currentData, indicators, priceHistory, handled, tick,
                           inflight>>
\* handleWebSocketMessage(data)
handleWebSocketMessage(data) ==
    LET type == IF "type" \in DOMAIN data THEN data.type ELSE "undefined" IN
    CASE type = "market_data" ->
            /\ currentData' = Set(currentData, data)
            /\ indicators' = Set(indicators, IF "indicators" \in DOMAIN data
                                             THEN data.indicators ELSE EmptyObject)
            /\ priceHistory' = Set(priceHistory, AppendHistory(priceHistory, data))
            /\ handled' = Append(handled, Sample(data))
            /\ tick' = tick + 1
            /\ notice' = NoToast
            /\ logged' = <<>>
            /\ UNCHANGED <<aiAnalysis, inflight>>
      [] type = "ai_analysis" ->
            /\ aiAnalysis' = Set(aiAnalysis, data)
            /\ notice' = "success: analysis"
            /\ inflight' = inflight (+) SetToBag({GetAnalysis(FirstRenderSymbol)})
            /\ logged' = <<>>
            /\ UNCHANGED <<currentData, indicators, priceHistory, handled, tick>>
      [] OTHER ->
            /\ notice' = NoToast
            /\ logged' = IF type = "connection"
                          THEN <<"log: Connection confirmed">>
                          ELSE <<"log: Unknown message type">>
            /\ UNCHANGED <<currentData, indicators, priceHistory, handled, tick,
                           aiAnalysis, inflight>>

\* Variant of ws.onmessage whose catch raises a notification.
onmessageSurfacing(id, payload) ==
    /\ Quiet
    /\ sockets[id].readyState = "OPEN"
    /\ IF payload.wellFormed /\ payload.value # Null
       THEN handleWebSocketMessage(payload.value)
       ELSE /\ notice' = "error: malformed message"
            /\ logged' = <<"error: Error parsing WebSocket message">>
            /\ UNCHANGED <<currentData, indicators, priceHistory, handled, tick,
                           aiAnalysis, inflight>>
    /\ UNCHANGED <<selectedSymbol, symbols, alerts, alertPrice, alertType,
                   recentAnalyses, isConnected, wsRef, reconnectTimeoutRef,
                   sockets, timeouts, phase>>
    /\ UNCHANGED <<arrivals, summarizerVars>>
\* ws.onmessage: a message event is dispatched only on an open socket.  A
\* payload that does not parse, or that parses to null (data.type throws),
\* ends in the catch, which only logs.
onmessage(id, payload) ==
    /\ Quiet
    /\ sockets[id].readyState = "OPEN"
    /\ IF payload.wellFormed /\ payload.value # Null
       THEN handleWebSocketMessage(payload.value)
       ELSE /\ notice' = NoToast
            /\ logged' = <<"error: Error parsing WebSocket message">>
            /\ UNCHANGED <<currentData, indicators, priceHistory, handled, tick,
                           aiAnalysis, inflight>>
    /\ UNCHANGED <<selectedSymbol, symbols, alerts, alertPrice, alertType,
                   recentAnalyses, isConnected, wsRef, reconnectTimeoutRef,
                   sockets, timeouts, phase>>
    /\ UNCHANGED <<arrivals, summarizerVars>>

Payloads(symbol, t) ==
    {[wellFormed |-> TRUE, value |-> d] :
        d \in MarketData(symbol, t) \cup AiAnalysisMsgs(symbol, t) \cup OtherMsgs}
    \cup {[wellFormed |-> TRUE, value |-> Null], [wellFormed |-> FALSE, value |-> Null]}

(***************************************************************************)
(* The alert form.                                                         *)
(***************************************************************************)
DigitChars == {"0", "1", "2", "3", "4", "5", "6", "7", "8", "9"}
DigitVal(c) ==
    CASE c = "0" -> 0 [] c = "1" -> 1 [] c = "2" -> 2 [] c = "3" -> 3 [] c = "4" -> 4
      [] c = "5" -> 5 [] c = "6" -> 6 [] c = "7" -> 7 [] c = "8" -> 8 [] c = "9" -> 9

NaN == "NaN"

\* The index of the first character of s at or after i that is not a space.
RECURSIVE SkipSpaces(_, _)
SkipSpaces(s, i) ==
    IF i <= Len(s) /\ s[i] = " " THEN SkipSpaces(s, i + 1) ELSE i

\* The run of digits of s that starts at i: <<its value, the index after it>>.
RECURSIVE ScanDigits(_, _, _)
ScanDigits(s, i, acc) ==
    IF i <= Len(s) /\ s[i] \in DigitChars
    THEN ScanDigits(s, i + 1, 10 * acc + DigitVal(s[i]))
    ELSE <<acc, i>>

\* parseFloat on a text of spaces, a sign, digits and a decimal point: the
\* longest leading decimal literal, in hundredths (digits beyond the second
\* decimal are below the model's resolution); NaN when there is none.
parseFloat(s) ==
    LET i0 == SkipSpaces(s, 1)
        signed == i0 <= Len(s) /\ s[i0] \in {"-", "+"}
        negative == signed /\ s[i0] = "-"
        i1 == IF signed THEN i0 + 1 ELSE i0
        int == ScanDigits(s, i1, 0)
        hasInt == int[2] > i1
        hasDot == int[2] <= Len(s) /\ s[int[2]] = "."
        f1 == int[2] + 1
        d1 == IF hasDot /\ f1 <= Len(s) /\ s[f1] \in DigitChars THEN DigitVal(s[f1]) ELSE 0
        d2 == IF hasDot /\ f1 + 1 <= Len(s) /\ s[f1] \in DigitChars
                 /\ s[f1 + 1] \in DigitChars
              THEN DigitVal(s[f1 + 1]) ELSE 0
        hasFrac == hasDot /\ f1 <= Len(s) /\ s[f1] \in DigitChars
        magnitude == 100 * int[1] + 10 * d1 + d2
    IN  IF ~hasInt /\ ~hasFrac THEN NaN
        ELSE IF negative THEN 0 - magnitude ELSE magnitude

\* The texts the price input is given, each with the number it denotes,
\* in hundredths; the empty text is the cleared input.
AlertInputs ==
    {[text |-> <<>>, denotes |-> 0],
     [text |-> <<"2", "0", "0">>, denotes |-> 20000],
     [text |-> <<"0">>, denotes |-> 0],
     [text |-> <<"1", "9", "1", ".", "2", "3">>, denotes |-> 19123]}
Conditions == {"above", "below"}
Clock == {1700000000}

\* The input's onChange and the select's onValueChange.
setAlertPrice(text) ==
    /\ phase = "idle"
    /\ alertPrice' = text
    /\ notice' = NoToast
    /\ UNCHANGED <<selectedSymbol, symbols, currentData, indicators, aiAnalysis,
                   isConnected, priceHistory, alerts, alertType, recentAnalyses,
                   wsRef, reconnectTimeoutRef, sockets, timeouts, inflight, phase,
                   handled, tick>>
    /\ logged' = <<>>
    /\ UNCHANGED <<arrivals, summarizerVars>>

setAlertType(condition) ==
    /\ phase = "idle"
    /\ alertType' = condition
    /\ notice' = NoToast
    /\ UNCHANGED <<selectedSymbol, symbols, currentData, indicators, aiAnalysis,
                   isConnected, priceHistory, alerts, alertPrice, recentAnalyses,
                   wsRef, reconnectTimeoutRef, sockets, timeouts, inflight, phase,
                   handled, tick>>
    /\ logged' = <<>>
    /\ UNCHANGED <<arrivals, summarizerVars>>

\* Variant of the check that looks at the quote only.
RejectsOnlyMissingQuote == currentData = Null
\* !alertPrice || !currentData: the empty string and null are the falsy ones.
AlertRejected == alertPrice = <<>> \/ currentData = Null

\* Variant of the record with the condition evaluated on the client.
alertDataEvaluated(now) ==
    [id |-> now, symbol |-> selectedSymbol, condition |-> alertType,
     target_price |-> parseFloat(alertPrice), current_price |-> currentData.price,
     triggered |-> IF alertType = "above"
                   THEN currentData.price >= parseFloat(alertPrice)
                   ELSE currentData.price <= parseFloat(alertPrice)]
\* The record that createPriceAlert builds; now is Date.now().
alertData(now) ==
    [id |-> now, symbol |-> selectedSymbol, condition |-> alertType,
     target_price |-> parseFloat(alertPrice), current_price |-> currentData.price,
     triggered |-> FALSE]

\* createPriceAlert up to its await: the check, then the POST.  (The button
\* that calls it is rendered disabled under the same condition.)
createPriceAlert(now) ==
    /\ phase = "idle"
    /\ IF AlertRejected
       THEN /\ notice' = "error: valid price"
            /\ UNCHANGED inflight
       ELSE /\ inflight' = inflight (+) SetToBag({PostAlerts(alertData(now))})
            /\ notice' = NoToast
    /\ UNCHANGED <<uiVars, isConnected, wsRef, reconnectTimeoutRef, sockets,
                   timeouts, phase, handled, tick>>
    /\ logged' = <<>>
    /\ UNCHANGED <<arrivals, summarizerVars>>

\* Variant of the success path that does not fetch the alerts again.
PostAlertsOkWithoutRefetch(req) ==
    /\ Quiet
    /\ BagIn(req, inflight)
    /\ req.kind = "POST /api/alerts"
    /\ inflight' = inflight (-) SetToBag({req})
    /\ alertPrice' = Set(alertPrice, <<>>)
    /\ notice' = "success: alert created"
    /\ UNCHANGED <<selectedSymbol, symbols, currentData, indicators, aiAnalysis,
                   isConnected, priceHistory, alerts, alertType, recentAnalyses,
                   wsRef, reconnectTimeoutRef, sockets, timeouts, phase, handled, tick>>
    /\ logged' = <<>>
    /\ UNCHANGED <<arrivals, summarizerVars>>
\* createPriceAlert after the await: the POST succeeded.
PostAlertsOk(req) ==
    /\ Quiet
    /\ BagIn(req, inflight)
    /\ req.kind = "POST /api/alerts"
    /\ inflight' = (inflight (-) SetToBag({req})) (+) SetToBag({GetAlerts})
    /\ alertPrice' = Set(alertPrice, <<>>)
    /\ notice' = "success: alert created"
    /\ UNCHANGED <<selectedSymbol, symbols, currentData, indicators, aiAnalysis,
                   isConnected, priceHistory, alerts, alertType, recentAnalyses,
                   wsRef, reconnectTimeoutRef, sockets, timeouts, phase, handled, tick>>
    /\ logged' = <<>>
    /\ UNCHANGED <<arrivals, summarizerVars>>

\* createPriceAlert after the await: the POST failed.
PostAlertsFail(req) ==
    /\ Quiet
    /\ BagIn(req, inflight)
    /\ req.kind = "POST /api/alerts"
    /\ inflight' = inflight (-) SetToBag({req})
    /\ notice' = "error: create alert"
    /\ UNCHANGED <<uiVars, isConnected, wsRef, reconnectTimeoutRef, sockets,
                   timeouts, phase, handled, tick>>
    /\ logged' = <<"error: Error creating alert">>
    /\ UNCHANGED <<arrivals, summarizerVars>>

\* fetchAlerts, after the await: response.data.alerts || [].
AlertLists == {<<>>, <<[id |-> 1, symbol |-> "AAPL", condition |-> "above",
                       target_price |-> 20000, current_price |-> 19123,
                       triggered |-> FALSE]>>}
AlertBodies == {[alerts |-> l] : l \in AlertLists} \cup {EmptyObject}

fetchAlerts(body) ==
    /\ Quiet
    /\ BagIn(GetAlerts, inflight)
    /\ inflight' = inflight (-) SetToBag({GetAlerts})
    /\ \E k \in 1..InFlight(GetAlerts.kind) :
          LET data == IF "alerts" \in DOMAIN body THEN body.alerts ELSE <<>>
              stale == k <= arrivals[GetAlerts.kind].overtaken
          IN  /\ alerts' = Set(alerts, Stored(alerts, data, stale))
              /\ arrivals' = Answered(GetAlerts.kind, k, data)
    /\ notice' = NoToast
    /\ logged' = <<>>
    /\ UNCHANGED summarizerVars
    /\ UNCHANGED <<selectedSymbol, symbols, currentData, indicators, aiAnalysis,
                   isConnected, priceHistory, alertPrice, alertType, recentAnalyses,
                   wsRef, reconnectTimeoutRef, sockets, timeouts, phase, handled, tick>>

\* fetchAlerts, after the await: the request failed, which is only logged.
fetchAlertsFailed ==
    /\ Quiet
    /\ BagIn(GetAlerts, inflight)
    /\ inflight' = inflight (-) SetToBag({GetAlerts})
    /\ \E k \in 1..InFlight(GetAlerts.kind) : arrivals' = Failed(GetAlerts.kind, k)
    /\ notice' = NoToast
    /\ logged' = <<"error: Error fetching alerts">>
    /\ UNCHANGED summarizerVars
    /\ UNCHANGED <<uiVars, isConnected, wsRef, reconnectTimeoutRef, sockets,
                   timeouts, phase, handled, tick>>

\* fetchSymbols, after the await: the request failed.
fetchSymbolsFailed ==
    /\ Quiet
    /\ BagIn(GetSymbols, inflight)
    /\ inflight' = inflight (-) SetToBag({GetSymbols})
    /\ notice' = "error: fetch symbols"
    /\ logged' = <<"error: Error fetching symbols">>
    /\ UNCHANGED <<uiVars, isConnected, wsRef, reconnectTimeoutRef, sockets,
                   timeouts, phase, handled, tick, arrivals, summarizerVars>>

\* fetchRecentAnalyses, after the await: response.data.analyses || [].
AnalysisLists == {<<>>, <<[symbol |-> "AAPL", recommendation |-> "HOLD"]>>}
AnalysisBodies == {[analyses |-> l] : l \in AnalysisLists} \cup {EmptyObject}

fetchRecentAnalyses(req, body) ==
    /\ Quiet
    /\ BagIn(req, inflight)
    /\ req.kind = "GET /api/analysis/"
    /\ inflight' = inflight (-) SetToBag({req})
    /\ \E k \in 1..InFlight(req.kind) :
          LET data == IF "analyses" \in DOMAIN body THEN body.analyses ELSE <<>>
              stale == k <= arrivals[req.kind].overtaken
          IN  /\ recentAnalyses' = Set(recentAnalyses,
                                       Stored(recentAnalyses, data, stale))
              /\ arrivals' = Answered(req.kind, k, data)
    /\ notice' = NoToast
    /\ logged' = <<>>
    /\ UNCHANGED <<selectedSymbol, symbols, currentData, indicators, aiAnalysis,
                   isConnected, priceHistory, alerts, alertPrice, alertType,
                   wsRef, reconnectTimeoutRef, sockets, timeouts, phase, handled,
                   tick, summarizerVars>>

\* fetchRecentAnalyses, after the await: the request failed, which is only
\* logged.
fetchRecentAnalysesFailed(req) ==
    /\ Quiet
    /\ BagIn(req, inflight)
    /\ req.kind = "GET /api/analysis/"
    /\ inflight' = inflight (-) SetToBag({req})
    /\ \E k \in 1..InFlight(req.kind) : arrivals' = Failed(req.kind, k)
    /\ notice' = NoToast
    /\ logged' = <<"error: Error fetching analyses">>
    /\ UNCHANGED <<uiVars, isConnected, wsRef, reconnectTimeoutRef, sockets,
                   timeouts, phase, handled, tick, summarizerVars>>

(***************************************************************************)
(* The indicator cards.  A text that is shown is a sequence of characters; *)
(* a value read from an object is the value or undefined.                  *)
(***************************************************************************)
Undefined == [defined |-> FALSE]
\* obj.field
Get(obj, field) ==
    IF field \in DOMAIN obj THEN [defined |-> TRUE, value |-> obj[field]] ELSE Undefined
\* v?.field
GetOptional(v, field) == IF v.defined THEN Get(v.value, field) ELSE Undefined
\* The truthiness of a number or undefined: 0 and undefined are falsy.
Truthy(v) == v.defined /\ v.value # 0

DigitChar(d) ==
    CASE d = 0 -> "0" [] d = 1 -> "1" [] d = 2 -> "2" [] d = 3 -> "3" [] d = 4 -> "4"
      [] d = 5 -> "5" [] d = 6 -> "6" [] d = 7 -> "7" [] d = 8 -> "8" [] d = 9 -> "9"
RECURSIVE NatToChars(_)
NatToChars(n) ==
    IF n < 10 THEN <<DigitChar(n)>>
    ELSE NatToChars(n \div 10) \o <<DigitChar(n % 10)>>
Abs(n) == IF n < 0 THEN 0 - n ELSE n
Cents(n) == <<DigitChar((Abs(n) % 100) \div 10), DigitChar(Abs(n) % 10)>>

\* String(num) of a number held in hundredths: the shortest decimal.
NumberToString(n) ==
    (IF n < 0 THEN <<"-">> ELSE <<>>)
    \o NatToChars(Abs(n) \div 100)
    \o (IF Abs(n) % 100 = 0 THEN <<>>
        ELSE IF Abs(n) % 10 = 0 THEN <<".", DigitChar((Abs(n) % 100) \div 10)>>
        ELSE <<".">> \o Cents(n))

\* Number.prototype.toFixed(2)
toFixed2(n) ==
    (IF n < 0 THEN <<"-">> ELSE <<>>) \o NatToChars(Abs(n) \div 100) \o <<".">> \o Cents(n)

\* The integer part with a comma between its groups of three digits.
RECURSIVE Grouped(_)
Grouped(n) ==
    IF n < 1000 THEN NatToChars(n)
    ELSE Grouped(n \div 1000)
         \o <<",", DigitChar((n % 1000) \div 100), DigitChar((n % 100) \div 10),
              DigitChar(n % 10)>>

\* formatPrice: Intl.NumberFormat('en-US', {style: 'currency', currency: 'USD'})
formatPrice(price) ==
    (IF price < 0 THEN <<"-">> ELSE <<>>) \o <<"$">> \o Grouped(Abs(price) \div 100)
    \o <<".">> \o Cents(price)

NotAvailable == <<"N", "/", "A">>
ZeroDollars == <<"$", "0", ".", "0", "0">>

\* formatNumber(num): parseFloat is given the number as a string.
formatNumber(num) ==
    IF ~num.defined THEN NotAvailable
    ELSE toFixed2(parseFloat(NumberToString(num.value)))

\* The text of each card, as the render computes it from indicators.
RsiCard == formatNumber(Get(indicators, "rsi"))
RsiProgress == IF Truthy(Get(indicators, "rsi")) THEN indicators.rsi ELSE 0
VwapCard ==
    IF Truthy(Get(indicators, "vwap")) THEN formatPrice(indicators.vwap) ELSE ZeroDollars
Sma20Card ==
    IF Truthy(Get(indicators, "sma_20")) THEN formatPrice(indicators.sma_20)
    ELSE NotAvailable
Ema20Card ==
    IF Truthy(Get(indicators, "ema_20")) THEN formatPrice(indicators.ema_20)
    ELSE NotAvailable
BollingerUpperCard ==
    IF Truthy(GetOptional(Get(indicators, "bollinger_bands"), "upper"))
    THEN formatPrice(indicators.bollinger_bands.upper) ELSE NotAvailable
BollingerLowerCard ==
    IF Truthy(GetOptional(Get(indicators, "bollinger_bands"), "lower"))
    THEN formatPrice(indicators.bollinger_bands.lower) ELSE NotAvailable

\* The trend icon of the Current Price card.
\* v, where v may be null: the value, or undefined in optional chaining.
Nullable(v) == IF v = Null THEN Undefined ELSE [defined |-> TRUE, value |-> v]
\* arr[i], with JavaScript's indices from 0: undefined outside the array.
At(arr, i) ==
    IF i >= 0 /\ i < Len(arr) THEN [defined |-> TRUE, value |-> arr[i + 1]]
    ELSE Undefined

\* Variant of getTrendIcon that takes equal prices for an increase.
getTrendIconOrEqual(current, previous) ==
    IF ~Truthy(previous) THEN "Activity"
    ELSE IF current.defined /\ current.value >= previous.value THEN "TrendingUp"
    ELSE "TrendingDown"
\* getTrendIcon(current, previous): a comparison with undefined is false.
getTrendIcon(current, previous) ==
    IF ~Truthy(previous) THEN "Activity"
    ELSE IF current.defined /\ current.value > previous.value THEN "TrendingUp"
    ELSE "TrendingDown"

\* getTrendIcon(currentData?.price, priceHistory[priceHistory.length - 2]?.price)
TrendIcon ==
    getTrendIcon(GetOptional(Nullable(currentData), "price"),
                 GetOptional(At(priceHistory, Len(priceHistory) - 2), "price"))

(***************************************************************************)
(* The meeting summarizer (src/unnamed/part_000): a component of its own,  *)
(* mounted instead of the dashboard.  A text that the code trims or tests  *)
(* for its ending is a sequence of characters.                             *)
(***************************************************************************)
Summarizing == phase = "summarizer"

PostSummarizeText(body) == Request("POST /api/summarize-text", body)
PostSummarizeFile(formData) == Request("POST /api/summarize-file", formData)
SummarizeKinds == {"POST /api/summarize-text", "POST /api/summarize-file"}

\* String.prototype.trim, on texts whose only white space is the space.
RECURSIVE TrimStart(_)
TrimStart(s) == IF s # <<>> /\ Head(s) = " " THEN TrimStart(Tail(s)) ELSE s
RECURSIVE TrimEnd(_)
TrimEnd(s) ==
    IF s # <<>> /\ s[Len(s)] = " " THEN TrimEnd(SubSeq(s, 1, Len(s) - 1)) ELSE s
\* Variant of trim that leaves the text as it is.
trimNothing(s) == s
trim(s) == TrimEnd(TrimStart(s))

\* String.prototype.endsWith: the characters are compared from the end.
RECURSIVE endsWith(_, _)
endsWith(s, suffix) ==
    IF suffix = <<>> THEN TRUE
    ELSE IF s = <<>> THEN FALSE
    ELSE /\ s[Len(s)] = suffix[Len(suffix)]
         /\ endsWith(SubSeq(s, 1, Len(s) - 1), SubSeq(suffix, 1, Len(suffix) - 1))

\* What the user types and picks, and what the server answers.
Titles == {<<>>, <<" ">>, <<"Q", "3", " ">>}
Contents == {<<>>, <<"o", "k">>}
Files == {[name |-> <<"a", ".", "t", "x", "t">>],
          [name |-> <<"a", ".", "d", "o", "c", "x">>],
          [name |-> <<"a", ".", "p", "d", "f">>],
          [name |-> <<"a", ".", "T", "X", "T">>]}
FileLists == {<<>>} \cup {<<f>> : f \in Files}
Tabs == {"summarize", "results", "history"}
Summaries == {[id |-> 2, title |-> "Q3"]}
MeetingLists == {<<[id |-> 1, title |-> "Q2"]>>,
                 <<[id |-> 1, title |-> "Q2"], [id |-> 2, title |-> "Q3"]>>}

\* The effect of the first commit: fetchMeetings().
MountSummarizer ==
    /\ phase = "init"
    /\ phase' = "summarizer"
    /\ inflight' = inflight (+) SetToBag({GetMeetings})
    /\ notice' = NoToast
    /\ logged' = <<>>
    /\ UNCHANGED <<uiVars, isConnected, wsRef, reconnectTimeoutRef, sockets,
                   timeouts, handled, tick, arrivals, summarizerVars>>

\* fetchMeetings, after the await: setMeetings(response.data).
fetchMeetings(list) ==
    /\ Summarizing
    /\ BagIn(GetMeetings, inflight)
    /\ inflight' = inflight (-) SetToBag({GetMeetings})
    /\ \E k \in 1..InFlight(GetMeetings.kind) :
          LET stale == k <= arrivals[GetMeetings.kind].overtaken
          IN  /\ meetings' = Stored(meetings, list, stale)
              /\ arrivals' = Answered(GetMeetings.kind, k, list)
    /\ notice' = NoToast
    /\ logged' = <<>>
    /\ UNCHANGED <<uiVars, isConnected, wsRef, reconnectTimeoutRef, sockets,
                   timeouts, phase, handled, tick, meetingTitle, meetingContent,
                   selectedFile, isLoading, summary, activeTab>>

\* fetchMeetings, after the await: the request failed, which is only logged.
fetchMeetingsFailed ==
    /\ Summarizing
    /\ BagIn(GetMeetings, inflight)
    /\ inflight' = inflight (-) SetToBag({GetMeetings})
    /\ \E k \in 1..InFlight(GetMeetings.kind) : arrivals' = Failed(GetMeetings.kind, k)
    /\ notice' = NoToast
    /\ logged' = <<"error: Error fetching meetings">>
    /\ UNCHANGED <<uiVars, isConnected, wsRef, reconnectTimeoutRef, sockets,
                   timeouts, phase, handled, tick, summarizerVars>>

\* The onChange of the inputs and the tabs' onValueChange.
setMeetingTitle(text) ==
    /\ Summarizing
    /\ meetingTitle' = text
    /\ notice' = NoToast
    /\ logged' = <<>>
    /\ UNCHANGED <<uiVars, isConnected, wsRef, reconnectTimeoutRef, sockets,
                   timeouts, inflight, phase, handled, tick, arrivals,
                   meetingContent, selectedFile, isLoading, summary, meetings,
                   activeTab>>

setMeetingContent(text) ==
    /\ Summarizing
    /\ meetingContent' = text
    /\ notice' = NoToast
    /\ logged' = <<>>
    /\ UNCHANGED <<uiVars, isConnected, wsRef, reconnectTimeoutRef, sockets,
                   timeouts, inflight, phase, handled, tick, arrivals,
                   meetingTitle, selectedFile, isLoading, summary, meetings,
                   activeTab>>

setActiveTab(tab) ==
    /\ Summarizing
    /\ activeTab' = tab
    /\ notice' = NoToast
    /\ logged' = <<>>
    /\ UNCHANGED <<uiVars, isConnected, wsRef, reconnectTimeoutRef, sockets,
                   timeouts, inflight, phase, handled, tick, arrivals,
                   meetingTitle, meetingContent, selectedFile, isLoading,
                   summary, meetings>>

\* The onClick of a card of the history tab.
OpenMeeting(i) ==
    /\ Summarizing
    /\ i \in 1..Len(meetings)
    /\ summary' = meetings[i]
    /\ activeTab' = "results"
    /\ notice' = NoToast
    /\ logged' = <<>>
    /\ UNCHANGED <<uiVars, isConnected, wsRef, reconnectTimeoutRef, sockets,
                   timeouts, inflight, phase, handled, tick, arrivals,
                   meetingTitle, meetingContent, selectedFile, isLoading,
                   meetings>>

\* Variant of the check that accepts every name.
FileRejectedNever(name) == name = <<>> /\ name # <<>>
\* !file.name.endsWith('.txt') && !file.name.endsWith('.docx')
FileRejected(name) ==
    /\ ~endsWith(name, <<".", "t", "x", "t">>)
    /\ ~endsWith(name, <<".", "d", "o", "c", "x">>)

\* handleFileChange; files is e.target.files, empty when the dialog was
\* cancelled.
handleFileChange(files) ==
    /\ Summarizing
    /\ IF files = <<>>
       THEN /\ notice' = NoToast
            /\ UNCHANGED selectedFile
       ELSE IF FileRejected(files[1].name)
       THEN /\ notice' = "error: select a .txt or .docx file"
            /\ UNCHANGED selectedFile
       ELSE /\ notice' = NoToast
            /\ selectedFile' = files[1]
    /\ logged' = <<>>
    /\ UNCHANGED <<uiVars, isConnected, wsRef, reconnectTimeoutRef, sockets,
                   timeouts, inflight, phase, handled, tick, arrivals,
                   meetingTitle, meetingContent, isLoading, summary, meetings,
                   activeTab>>

\* handleTextSummary up to its await.  (The button that calls it is rendered
\* disabled while isLoading or a field is blank; the handler tests the
\* fields only.)
handleTextSummary ==
    /\ Summarizing
    /\ IF trim(meetingTitle) = <<>> \/ trim(meetingContent) = <<>>
       THEN /\ notice' = "error: provide both title and content"
            /\ UNCHANGED <<isLoading, inflight>>
       ELSE /\ isLoading' = TRUE
            /\ inflight' = inflight (+) SetToBag({PostSummarizeText(
                               [title |-> meetingTitle, content |-> meetingContent])})
            /\ notice' = NoToast
    /\ logged' = <<>>
    /\ UNCHANGED <<uiVars, isConnected, wsRef, reconnectTimeoutRef, sockets,
                   timeouts, phase, handled, tick, arrivals, meetingTitle,
                   meetingContent, selectedFile, summary, meetings, activeTab>>

\* handleFileSummary up to its await.
handleFileSummary ==
    /\ Summarizing
    /\ IF trim(meetingTitle) = <<>> \/ selectedFile = Null
       THEN /\ notice' = "error: provide both title and file"
            /\ UNCHANGED <<isLoading, inflight>>
       ELSE /\ isLoading' = TRUE
            /\ inflight' = inflight (+) SetToBag({PostSummarizeFile(
                               [title |-> meetingTitle, file |-> selectedFile])})
            /\ notice' = NoToast
    /\ logged' = <<>>
    /\ UNCHANGED <<uiVars, isConnected, wsRef, reconnectTimeoutRef, sockets,
                   timeouts, phase, handled, tick, arrivals, meetingTitle,
                   meetingContent, selectedFile, summary, meetings, activeTab>>

\* The success path of both handlers after the await, up to the form.
SummarizeSucceeded(req, data, toast) ==
    /\ BagIn(req, inflight)
    /\ inflight' = (inflight (-) SetToBag({req})) (+) SetToBag({GetMeetings})
    /\ summary' = data
    /\ activeTab' = "results"
    /\ notice' = toast
    /\ logged' = <<>>
    /\ isLoading' = FALSE
    /\ UNCHANGED <<uiVars, isConnected, wsRef, reconnectTimeoutRef, sockets,
                   timeouts, phase, handled, tick, arrivals, meetings>>

\* Variant of the catch that also clears the form.
SummarizeFailedClearing(req, toast, line) ==
    /\ BagIn(req, inflight)
    /\ inflight' = inflight (-) SetToBag({req})
    /\ notice' = toast
    /\ logged' = <<line>>
    /\ isLoading' = FALSE
    /\ meetingTitle' = <<>>
    /\ UNCHANGED <<uiVars, isConnected, wsRef, reconnectTimeoutRef, sockets,
                   timeouts, phase, handled, tick, arrivals,
                   meetingContent, selectedFile, summary, meetings, activeTab>>
\* The catch and the finally of both handlers.
SummarizeFailed(req, toast, line) ==
    /\ BagIn(req, inflight)
    /\ inflight' = inflight (-) SetToBag({req})
    /\ notice' = toast
    /\ logged' = <<line>>
    /\ isLoading' = FALSE
    /\ UNCHANGED <<uiVars, isConnected, wsRef, reconnectTimeoutRef, sockets,
                   timeouts, phase, handled, tick, arrivals, meetingTitle,
                   meetingContent, selectedFile, summary, meetings, activeTab>>

\* handleTextSummary after the await: the POST succeeded with response.data.
SummarizeTextOk(req, data) ==
    /\ Summarizing
    /\ req.kind = "POST /api/summarize-text"
    /\ SummarizeSucceeded(req, data, "success: meeting summarized")
    /\ meetingTitle' = <<>>
    /\ meetingContent' = <<>>
    /\ UNCHANGED selectedFile

\* handleTextSummary after the await: the POST failed.
SummarizeTextFail(req) ==
    /\ Summarizing
    /\ req.kind = "POST /api/summarize-text"
    /\ SummarizeFailed(req, "error: failed to summarize meeting",
                       "error: Error summarizing meeting")

\* handleFileSummary after the await: the POST succeeded with response.data.
SummarizeFileOk(req, data) ==
    /\ Summarizing
    /\ req.kind = "POST /api/summarize-file"
    /\ SummarizeSucceeded(req, data, "success: file summarized")
    /\ meetingTitle' = <<>>
    /\ selectedFile' = Null
    /\ UNCHANGED meetingContent

\* handleFileSummary after the await: the POST failed.
SummarizeFileFail(req) ==
    /\ Summarizing
    /\ req.kind = "POST /api/summarize-file"
    /\ SummarizeFailed(req, "error: failed to process file",
                       "error: Error processing file")

(***************************************************************************)
(* Specifications.  Each takes the actions of one part of the client, with *)
(* the bounds of the exploration as guards.                                *)
(***************************************************************************)
Symbols == {"AAPL", "MSFT"}

\* The payloads of the connection specification: one market_data.
StreamPayloads(symbol, t) ==
    {p \in Payloads(symbol, t) :
        /\ p.wellFormed /\ p.value # Null /\ "type" \in DOMAIN p.value
        /\ p.value.type = "market_data"
        /\ "indicators" \in DOMAIN p.value
        /\ p.value.price = 19123}

\* The streaming connection: connect, events of the sockets, reconnect
\* timers, symbol changes and teardown.
Next ==
    \/ \E throws \in BOOLEAN : Mount(throws)
    \/ \E list \in SymbolLists : fetchSymbols(list)
    \/ \E s \in Symbols : Len(sockets) < MaxSockets /\ setSelectedSymbol(s)
    \/ \E throws \in BOOLEAN : RunEffect(throws)
    \/ Unmount
    \/ \E id \in 1..Len(sockets) : onopen(id)
    \/ \E id \in 1..Len(sockets), failed \in BOOLEAN : onclose(id, failed)
    \/ \E t \in 1..Len(timeouts), throws \in BOOLEAN :
          Len(sockets) < MaxSockets /\ TimerFire(t, throws)
    \/ \E id \in 1..Len(sockets) : \E payload \in StreamPayloads(sockets[id].symbol, tick) :
          tick <= MaxMsgs /\ onmessage(id, payload)

Spec == Init /\ [][Next]_vars

\* The feed of the history specification: at the ticks of VolatileTicks
\* either price, at the others the first one; besides the market_data, at
\* the ticks of VolatileTicks, one message that is not handled and one
\* payload that does not parse.
VolatileTicks == {1, HistoryCap + 1}
HistoryPayloads(symbol, t) ==
    {p \in Payloads(symbol, t) :
        \/ ~p.wellFormed /\ t \in VolatileTicks
        \/ /\ p.value # Null /\ "type" \in DOMAIN p.value
           /\ \/ p.value.type = "connection" /\ t \in VolatileTicks
              \/ /\ p.value.type = "market_data"
                 /\ "indicators" \in DOMAIN p.value
                 /\ t \notin VolatileTicks => p.value.price = 19123}

\* The price history: a feed long enough to fill the window and overflow
\* it, with the events of the connection and of the alert form around it.
NextHistory ==
    \/ Mount(FALSE)
    \/ \E list \in SymbolLists : fetchSymbols(list)
    \/ \E s \in Symbols : Len(sockets) < MaxSocketsAside /\ setSelectedSymbol(s)
    \/ RunEffect(FALSE)
    \/ Unmount
    \/ \E id \in 1..Len(sockets) : onopen(id)
    \/ \E id \in 1..Len(sockets) : onclose(id, FALSE)
    \/ \E t \in 1..Len(timeouts) :
          Len(sockets) < MaxSocketsAside /\ TimerFire(t, FALSE)
    \/ \E id \in 1..Len(sockets) : \E payload \in HistoryPayloads(sockets[id].symbol, tick) :
          tick <= MaxTicks /\ onmessage(id, payload)
    \/ \E condition \in Conditions : setAlertType(condition)

SpecHistory == Init /\ [][NextHistory]_vars

\* The alert form: the inputs, createPriceAlert and the requests it makes,
\* with a feed that supplies the quote and a symbol select.
AlertPayloads(symbol, t) ==
    {p \in Payloads(symbol, t) :
        /\ p.wellFormed /\ p.value # Null /\ "type" \in DOMAIN p.value
        /\ p.value.type = "market_data"
        /\ "indicators" \in DOMAIN p.value
        /\ t \notin VolatileTicks => p.value.price = 19123}
PostsInFlight ==
    {r \in BagToSet(inflight) : r.kind = "POST /api/alerts"}
NumPostsInFlight == BagCardinality([r \in PostsInFlight |-> inflight[r]])
NextAlerts ==
    \/ Mount(FALSE)
    \/ \E list \in SymbolLists : fetchSymbols(list)
    \/ \E s \in Symbols : Len(sockets) < MaxSocketsAside /\ setSelectedSymbol(s)
    \/ RunEffect(FALSE)
    \/ \E id \in 1..Len(sockets) : onopen(id)
    \/ \E id \in 1..Len(sockets) : \E payload \in AlertPayloads(sockets[id].symbol, tick) :
          tick <= MaxMsgs /\ onmessage(id, payload)
    \/ \E input \in AlertInputs : setAlertPrice(input.text)
    \/ \E condition \in Conditions : setAlertType(condition)
    \/ \E now \in Clock :
          /\ NumPostsInFlight + CopiesIn(GetAlerts, inflight) < MaxPosts
          /\ createPriceAlert(now)
    \/ \E req \in BagToSet(inflight) : PostAlertsOk(req)
    \/ \E req \in BagToSet(inflight) : PostAlertsFail(req)
    \/ \E body \in AlertBodies : fetchAlerts(body)
    \/ fetchAlertsFailed

SpecAlerts == Init /\ [][NextAlerts]_vars

\* The summarizer: the form, both submissions and their responses, the
\* meeting list and the tabs.  A submission is made while fewer than
\* MaxSummaries requests, summarize requests and fetches of the meeting list
\* together, are in flight.
NumSummarizing ==
    InFlight("POST /api/summarize-text") + InFlight("POST /api/summarize-file")
SubmitAllowed == NumSummarizing + InFlight(GetMeetings.kind) < MaxSummaries
NextMeetings ==
    \/ MountSummarizer
    \/ \E list \in MeetingLists : fetchMeetings(list)
    \/ fetchMeetingsFailed
    \/ \E text \in Titles : setMeetingTitle(text)
    \/ \E text \in Contents : setMeetingContent(text)
    \/ \E tab \in Tabs : setActiveTab(tab)
    \/ \E i \in 1..Len(meetings) : OpenMeeting(i)
    \/ \E files \in FileLists : handleFileChange(files)
    \/ SubmitAllowed /\ handleTextSummary
    \/ SubmitAllowed /\ handleFileSummary
    \/ \E req \in BagToSet(inflight), data \in Summaries : SummarizeTextOk(req, data)
    \/ \E req \in BagToSet(inflight) : SummarizeTextFail(req)
    \/ \E req \in BagToSet(inflight), data \in Summaries : SummarizeFileOk(req, data)
    \/ \E req \in BagToSet(inflight) : SummarizeFileFail(req)

SpecMeetings == Init /\ [][NextMeetings]_vars

\* The stream messages: every kind of payload on one open socket, with the
\* fetches that the ai_analysis messages start and a symbol select.  The
\* market_data messages may also carry the full set of indicators.
FullIndicators ==
    [rsi |-> 5500, vwap |-> 19050, sma_20 |-> 18990, ema_20 |-> 19010,
     bollinger_bands |-> [upper |-> 19500, lower |-> 18500]]
MessagePayloads(symbol, t) ==
    Payloads(symbol, t)
    \cup {[wellFormed |-> TRUE,
           value |-> [type |-> "market_data", symbol |-> symbol, timestamp |-> t,
                      price |-> p, volume |-> v, indicators |-> FullIndicators]] :
             p \in Prices, v \in Volumes}
TypeOf(payload) ==
    IF payload.wellFormed /\ payload.value # Null /\ "type" \in DOMAIN payload.value
    THEN payload.value.type ELSE "undefined"
\* The bounds on the messages: market_data up to tick MaxMsgs, ai_analysis
\* while fewer than MaxFetches fetches of the analyses are in flight.
Deliverable(payload) ==
    /\ TypeOf(payload) = "market_data" => tick <= MaxMsgs
    /\ TypeOf(payload) = "ai_analysis" => InFlight("GET /api/analysis/") < MaxFetches
NextMessages ==
    \/ Mount(FALSE)
    \/ \E list \in SymbolLists : fetchSymbols(list)
    \/ \E s \in Symbols : Len(sockets) < MaxSocketsAside /\ setSelectedSymbol(s)
    \/ RunEffect(FALSE)
    \/ \E id \in 1..Len(sockets) : onopen(id)
    \/ \E id \in 1..Len(sockets) : \E payload \in MessagePayloads(sockets[id].symbol, tick) :
          Deliverable(payload) /\ onmessage(id, payload)
    \/ \E req \in BagToSet(inflight), body \in AnalysisBodies :
          fetchRecentAnalyses(req, body)
    \/ \E req \in BagToSet(inflight) : fetchRecentAnalysesFailed(req)

SpecMessages == Init /\ [][NextMessages]_vars

\* The REST calls of both components and their responses, each succeeding
\* or failing, on a form that is filled in with texts and files that pass
\* the handlers' tests, with the events of the stream that start a call or
\* fail:
\* the first quote, which the alert form needs, and the ai_analysis messages.
\* A call is started by the alert form or by a message only while fewer than
\* MaxInFlight requests are in flight.
\* The stream closes or fails only before its first quote.
RestPayloads(symbol, t) ==
    {p \in Payloads(symbol, t) :
        \/ TypeOf(p) = "market_data" /\ "indicators" \in DOMAIN p.value
                                     /\ p.value.price = 19123
        \/ TypeOf(p) = "ai_analysis" /\ p.value.recommendation = "HOLD"}
RestInputs == {input \in AlertInputs : input.text = <<"2", "0", "0">>}
NextRest ==
    \/ \E throws \in BOOLEAN : Mount(throws)
    \/ \E list \in SymbolLists : fetchSymbols(list)
    \/ fetchSymbolsFailed
    \/ \E body \in AlertBodies : fetchAlerts(body)
    \/ fetchAlertsFailed
    \/ \E req \in BagToSet(inflight), body \in AnalysisBodies :
          fetchRecentAnalyses(req, body)
    \/ \E req \in BagToSet(inflight) : fetchRecentAnalysesFailed(req)
    \/ \E id \in 1..Len(sockets) : onopen(id)
    \/ \E id \in 1..Len(sockets), failed \in BOOLEAN :
          currentData = Null /\ onclose(id, failed)
    \/ \E id \in 1..Len(sockets) : \E payload \in RestPayloads(sockets[id].symbol, tick) :
          /\ TypeOf(payload) = "market_data" => currentData = Null
          /\ TypeOf(payload) = "ai_analysis" => BagCardinality(inflight) < MaxInFlight
          /\ onmessage(id, payload)
    \/ \E input \in RestInputs : setAlertPrice(input.text)
    \/ \E now \in Clock :
          /\ NumPostsInFlight < MaxPosts
          /\ BagCardinality(inflight) < MaxInFlight
          /\ createPriceAlert(now)
    \/ \E req \in BagToSet(inflight) : PostAlertsOk(req)
    \/ \E req \in BagToSet(inflight) : PostAlertsFail(req)
    \/ MountSummarizer
    \/ \E list \in MeetingLists : fetchMeetings(list)
    \/ fetchMeetingsFailed
    \/ \E text \in Titles : trim(text) # <<>> /\ setMeetingTitle(text)
    \/ \E text \in Contents : trim(text) # <<>> /\ setMeetingContent(text)
    \/ \E files \in FileLists :
          /\ files # <<>> /\ ~FileRejected(files[1].name) /\ selectedFile = Null
          /\ handleFileChange(files)
    \/ \E i \in 1..Len(meetings) : OpenMeeting(i)
    \/ SubmitAllowed /\ handleTextSummary
    \/ SubmitAllowed /\ handleFileSummary
    \/ \E req \in BagToSet(inflight), data \in Summaries : SummarizeTextOk(req, data)
    \/ \E req \in BagToSet(inflight) : SummarizeTextFail(req)
    \/ \E req \in BagToSet(inflight), data \in Summaries : SummarizeFileOk(req, data)
    \/ \E req \in BagToSet(inflight) : SummarizeFileFail(req)

SpecRest == Init /\ [][NextRest]_vars

(***************************************************************************)
(* Properties of the streaming connection.                                 *)
(***************************************************************************)
LiveSockets(socks) == {i \in 1..Len(socks) : socks[i].readyState \in Live}
PendingTimeouts(tms) == {t \in 1..Len(tms) : tms[t].state = "pending"}
SwitchStep == phase = "idle" /\ phase' = "effect"
EffectStep == phase = "effect" /\ phase' = "idle"
CleanupStep == phase = "idle" /\ phase' \in {"effect", "unmounted"}
Created == Len(sockets') > Len(sockets)

AtMostOneLive == Cardinality(LiveSockets(sockets)) <= 1

\* C2 witness: after a switch, a stale close and a reconnect timer, three
\* sockets have been made and exactly one is live.
OneLiveAmongThree ==
    /\ Len(sockets) = 3 /\ Cardinality(LiveSockets(sockets)) = 1
    /\ \E t \in 1..Len(timeouts) : timeouts[t].state = "fired"
    /\ selectedSymbol = "MSFT"

\* C3: every connection opened while the component is mounted is for the
\* symbol selected at that moment.
OpenedForSelectedSymbol ==
    [][(Created /\ phase' # "unmounted")
          => sockets'[Len(sockets')].symbol = selectedSymbol']_vars

\* C4: a cleanup (symbol change or teardown) cancels every reconnect timer
\* that is pending when it runs.
CleanupCancelsPending ==
    [][CleanupStep =>
          \A t \in PendingTimeouts(timeouts) : timeouts'[t].state = "cleared"]_vars

\* C5: after the teardown no socket is connecting or open and no reconnect
\* timer is pending.
NothingOutlivesTeardown ==
    phase = "unmounted" => LiveSockets(sockets) = {} /\ PendingTimeouts(timeouts) = {}

\* C6: a step in which a socket reaches CLOSED closes one socket and sets
\* exactly one timer, with the fixed delay and the symbol of that socket,
\* recorded in reconnectTimeoutRef; a timer fires at most once, and when it
\* fires the connection it opens is for the timer's symbol.
ClosedNow(id) == sockets[id].readyState # "CLOSED" /\ sockets'[id].readyState = "CLOSED"
CloseSchedulesOneReconnect ==
    [][/\ \A id \in 1..Len(sockets) : ClosedNow(id) =>
            /\ \A other \in 1..Len(sockets) : ClosedNow(other) => other = id
            /\ Len(timeouts') = Len(timeouts) + 1
            /\ SubSeq(timeouts', 1, Len(timeouts)) = timeouts
            /\ timeouts'[Len(timeouts')] =
                  [symbol |-> sockets[id].symbol, delay |-> 3000, state |-> "pending"]
            /\ reconnectTimeoutRef' = Len(timeouts')
       /\ (\A id \in 1..Len(sockets) : ~ClosedNow(id)) => Len(timeouts') = Len(timeouts)
       /\ \A t \in 1..Len(timeouts) :
            /\ timeouts[t].state # "pending" => timeouts'[t] = timeouts[t]
            /\ (timeouts[t].state = "pending" /\ timeouts'[t].state = "fired") =>
                  /\ Len(sockets') <= Len(sockets) + 1
                  /\ Created => sockets'[Len(sockets')].symbol = timeouts[t].symbol]_vars

\* C6 witness: the AAPL socket failed, its one timer fired and the socket
\* the timer opened is for AAPL again.
ReconnectedSameSymbol ==
    /\ Len(sockets) = 2 /\ Len(timeouts) = 1
    /\ sockets[1] = [symbol |-> "AAPL", readyState |-> "CLOSED"]
    /\ timeouts[1] = [symbol |-> "AAPL", delay |-> 3000, state |-> "fired"]
    /\ sockets[2].symbol = "AAPL" /\ sockets[2].readyState = "OPEN"
    /\ notice = "success: connected"

\* C7: while the component is mounted a failed stream is always on its way
\* to a new attempt: a socket is still to close, or a reconnect timer is
\* pending, or a connection is live.
ReconnectAlwaysUnderWay ==
    phase = "idle" =>
        \/ \E id \in 1..Len(sockets) : sockets[id].readyState # "CLOSED"
        \/ PendingTimeouts(timeouts) # {}

(***************************************************************************)
(* Properties of the price history.                                        *)
(***************************************************************************)
\* The last n elements of a sequence, counted from its end.
LastOf(seq, n) == [i \in 1..n |-> seq[Len(seq) - n + i]]
Min(a, b) == IF a <= b THEN a ELSE b

\* C8: while the component is mounted the price history is the samples of
\* the last min(n, 50) market_data messages handled, in arrival order, so it
\* never holds more than 50; and only the handling of a market_data message
\* changes it, by one sample appended and at most the oldest one dropped.
HistoryIsLastFifty ==
    phase # "unmounted" =>
        /\ Len(priceHistory) = Min(Len(handled), 50)
        /\ priceHistory = LastOf(handled, Min(Len(handled), 50))

\* C8 witness: 52 messages were handled, so the two oldest samples are gone:
\* the window starts at the third and ends at the last.
HistoryOverflowed ==
    /\ phase = "idle" /\ Len(handled) = 52 /\ Len(priceHistory) = 50
    /\ priceHistory[1].timestamp = 3 /\ priceHistory[50].timestamp = 52
    /\ handled[1].price = 19000 /\ priceHistory[49].price = 19000

(***************************************************************************)
(* Properties of the alert form.                                           *)
(***************************************************************************)
\* The requests that a step issues: those with more copies in flight after it.
Issued(kind) ==
    {r \in BagToSet(inflight') :
        r.kind = kind /\ CopiesIn(r, inflight') > CopiesIn(r, inflight)}

\* The number that the text of the price input denotes, by the table.
Denotes(text) == (CHOOSE input \in AlertInputs : input.text = text).denotes

\* C9: while the entered price is empty or there is no current quote, no
\* step issues a POST /api/alerts; and the step in which createPriceAlert
\* rejects (the one raising its error notification) issues no request at
\* all and changes nothing but the notification.
RejectedAlertChangesNothing ==
    [][(alertPrice = <<>> \/ currentData = Null) =>
          /\ Issued("POST /api/alerts") = {}
          /\ notice' = "error: valid price" =>
                /\ inflight' = inflight
                /\ UNCHANGED <<uiVars, isConnected, wsRef, reconnectTimeoutRef,
                               sockets, timeouts, phase, handled, tick, arrivals,
                               summarizerVars>>]_vars

\* C9 witness: createPriceAlert has just rejected a price entered while no
\* quote has arrived; only the three fetches of the mount are in flight.
RejectedWithoutQuote ==
    /\ notice = "error: valid price"
    /\ currentData = Null /\ alertPrice = <<"2", "0", "0">>
    /\ PostsInFlight = {}

\* C10: every alert record a step submits carries the selected symbol, the
\* chosen condition, the number the entered text denotes, the price of the
\* current quote and triggered = false.
SubmittedAlertRecord ==
    [][\A r \in Issued("POST /api/alerts") :
          /\ r.arg.symbol = selectedSymbol
          /\ r.arg.condition = alertType
          /\ r.arg.target_price = Denotes(alertPrice)
          /\ r.arg.current_price = currentData.price
          /\ r.arg.triggered = FALSE
          /\ CopiesIn(r, inflight') = CopiesIn(r, inflight) + 1]_vars

\* C10 witness: an alert "above 0" submitted for MSFT while the quote is at
\* 191.23, so its condition is already met, is in flight untriggered.
UntriggeredThoughMet ==
    \E r \in PostsInFlight :
        /\ r.arg.symbol = "MSFT" /\ selectedSymbol = "MSFT"
        /\ r.arg.condition = "above"
        /\ r.arg.target_price = 0 /\ r.arg.current_price = 19123
        /\ r.arg.triggered = FALSE

\* The requests that a step completes: those with fewer copies in flight
\* after it.
Completed(kind) ==
    {r \in BagToSet(inflight) :
        r.kind = kind /\ CopiesIn(r, inflight') < CopiesIn(r, inflight)}

\* C11: a step that completes a POST /api/alerts either reports success,
\* clears the entered price and issues exactly one GET /api/alerts, or
\* reports an error, issues no GET /api/alerts and leaves the entered price
\* alone; in both cases the alert list held is not touched by that step.
AlertPostOutcome ==
    [][Completed("POST /api/alerts") # {} =>
          \/ /\ notice' = "success: alert created"
             /\ alertPrice' = <<>>
             /\ Issued("GET /api/alerts") = {GetAlerts}
             /\ CopiesIn(GetAlerts, inflight') = CopiesIn(GetAlerts, inflight) + 1
             /\ alerts' = alerts
          \/ /\ notice' = "error: create alert"
             /\ Issued("GET /api/alerts") = {}
             /\ inflight' (+) SetToBag(Completed("POST /api/alerts")) = inflight
             /\ alerts' = alerts
             /\ alertPrice' = alertPrice]_vars

\* C11 witness: the POST of an alert at 200 has succeeded: the input is
\* cleared and the re-fetch of the alerts is in flight.
AlertCreatedAndRefetching ==
    /\ notice = "success: alert created"
    /\ alertPrice = <<>> /\ currentData # Null
    /\ PostsInFlight = {}
    /\ CopiesIn(GetAlerts, inflight) = 1 /\ InFlight(GetAlerts.kind) = 1

(***************************************************************************)
(* Properties of the summarizer.                                           *)
(***************************************************************************)
\* A name whose last characters are those of ext.
HasExtension(name, ext) ==
    /\ Len(name) >= Len(ext)
    /\ SubSeq(name, Len(name) - Len(ext) + 1, Len(name)) = ext
Allowed(file) ==
    \/ HasExtension(file.name, <<".", "t", "x", "t">>)
    \/ HasExtension(file.name, <<".", "d", "o", "c", "x">>)

\* C12: in every state the selected file is null or has the extension .txt
\* or .docx, and so has the file of every POST /api/summarize-file in
\* flight; the step in which handleFileChange rejects a file (the one
\* raising its notification) leaves the selected file as it was.
OnlyAllowedFilesSelected ==
    /\ [](/\ selectedFile = Null \/ Allowed(selectedFile)
          /\ \A r \in BagToSet(inflight) :
                r.kind = "POST /api/summarize-file" => Allowed(r.arg.file))
    /\ [][notice' = "error: select a .txt or .docx file"
            => selectedFile' = selectedFile]_vars

\* C12 witness: a.txt was selected and submitted, then another file was
\* offered and rejected: a.txt is still the selected file.
RejectedFileKeepsPrevious ==
    /\ notice = "error: select a .txt or .docx file"
    /\ selectedFile = [name |-> <<"a", ".", "t", "x", "t">>]
    /\ \E r \in BagToSet(inflight) :
          r.kind = "POST /api/summarize-file" /\ r.arg.file = selectedFile

(***************************************************************************)
(* Properties of the calls and of their failures.                          *)
(***************************************************************************)
\* The console.error lines of the catch blocks of the REST calls and of the
\* error paths of the stream.
FailureLines ==
    {"error: Error fetching symbols", "error: Error fetching alerts",
     "error: Error fetching analyses", "error: Error creating alert",
     "error: Error fetching meetings", "error: Error summarizing meeting",
     "error: Error processing file", "error: WebSocket error",
     "error: Error creating WebSocket"}
FailureCaught == \E i \in 1..Len(logged') : logged'[i] \in FailureLines

\* C13: every step in which a REST call fails or the stream reports an error
\* (the step whose catch or onerror writes its line to the console) raises a
\* notification, and the component stays as mounted as it was.
EveryFailureNotifies ==
    [][FailureCaught => /\ notice' # NoToast
                        /\ phase # "init" => phase' = phase]_vars

(***************************************************************************)
(* Properties of the stream messages.                                      *)
(***************************************************************************)
\* All of the client's state but the connection's bookkeeping of the step
\* itself: what a message that is dropped or ignored must leave alone.
clientState == <<uiVars, isConnected, wsRef, reconnectTimeoutRef, sockets,
                 timeouts, inflight, phase, handled, tick, arrivals,
                 summarizerVars>>

\* C14: the step in which ws.onmessage ends in its catch (the one that logs
\* the parse error) changes nothing of the client's state and raises no
\* notification, and it leaves an open socket on a mounted or torn-down
\* component: what the handling of the next message requires.
MalformedPayloadSwallowed ==
    [][logged' = <<"error: Error parsing WebSocket message">> =>
          /\ UNCHANGED clientState
          /\ notice' = NoToast
          /\ Quiet'
          /\ \E id \in 1..Len(sockets') : sockets'[id].readyState = "OPEN"]_vars

\* C14 witness: a payload has just been dropped while a quote with its
\* indicators and history is shown and the indicator says connected.
DroppedWhileShowingQuote ==
    /\ logged = <<"error: Error parsing WebSocket message">>
    /\ currentData # Null /\ Len(priceHistory) = 1 /\ isConnected
    /\ sockets[wsRef].readyState = "OPEN"

\* C15: the step that handles an ai_analysis message (the one raising its
\* notification) makes a message of the open socket's feed the current
\* analysis, issues exactly one request, a GET of the analysis list, and
\* leaves the quote, the indicators and the price history alone.
AnalysisReplacedAndListRefreshed ==
    [][notice' = "success: analysis" =>
          /\ \E id \in 1..Len(sockets) :
                /\ sockets[id].readyState = "OPEN"
                /\ aiAnalysis' \in AiAnalysisMsgs(sockets[id].symbol, tick)
          /\ \E r \in Issued("GET /api/analysis/") :
                /\ Issued("GET /api/analysis/") = {r}
                /\ inflight' = inflight (+) SetToBag({r})
          /\ UNCHANGED <<currentData, indicators, priceHistory>>]_vars

\* C15 witness: a BUY analysis has just been handled while a quote is shown;
\* its refresh is in flight next to the fetch of the mount.
AnalysisArrivedOverQuote ==
    /\ notice = "success: analysis"
    /\ aiAnalysis # Null /\ aiAnalysis.recommendation = "BUY"
    /\ currentData # Null /\ Len(priceHistory) = 1
    /\ InFlight("GET /api/analysis/") = 2

\* C16: the step that handles a message of type connection, or of a type
\* that is none of connection, market_data and ai_analysis, or of no type
\* (the steps that log the confirmation or the unknown type), changes
\* nothing of the client's state and issues no request.
IgnoredMessagesChangeNothing ==
    [][logged' \in {<<"log: Connection confirmed">>, <<"log: Unknown message type">>}
          => UNCHANGED clientState /\ notice' = NoToast]_vars

\* C16 witness: a message of an unknown type has just been ignored while a
\* quote and an analysis are shown.
UnknownIgnoredOverQuote ==
    /\ logged = <<"log: Unknown message type">>
    /\ currentData # Null /\ aiAnalysis # Null
    /\ sockets[wsRef].readyState = "OPEN"

\* C17: a step that completes a summarize request (text or file) either
\* reports success, shows the summary the server returned, makes results the
\* active tab and issues one GET of the meeting list, or reports an error,
\* issues no such GET and leaves the shown summary, the active tab, the
\* meeting list and the fields of the form as they were.
SummarizeCompleted ==
    Completed("POST /api/summarize-text") \cup Completed("POST /api/summarize-file")
SummarizeOutcome ==
    [][SummarizeCompleted # {} =>
          \/ /\ notice' \in {"success: meeting summarized", "success: file summarized"}
             /\ summary' \in Summaries
             /\ activeTab' = "results"
             /\ Issued("GET /api/meetings") = {GetMeetings}
             /\ CopiesIn(GetMeetings, inflight') = CopiesIn(GetMeetings, inflight) + 1
          \/ /\ notice' \in {"error: failed to summarize meeting",
                             "error: failed to process file"}
             /\ Issued("GET /api/meetings") = {}
             /\ UNCHANGED <<summary, activeTab, meetings, meetingTitle,
                            meetingContent, selectedFile>>]_vars

\* C17 witness: a file submission has just failed while a meeting opened
\* from the history is shown and the user is back on the history tab: the
\* summary, the tab, the list, the title and the file are all still there.
FileSummaryFailedFormKept ==
    /\ notice = "error: failed to process file"
    /\ summary = [id |-> 1, title |-> "Q2"] /\ activeTab = "history"
    /\ Len(meetings) = 2
    /\ meetingTitle = <<"Q", "3", " ">> /\ selectedFile # Null
    /\ ~isLoading

CardValues ==
    [rsi |-> Get(indicators, "rsi"),
     vwap |-> Get(indicators, "vwap"),
     sma_20 |-> Get(indicators, "sma_20"),
     ema_20 |-> Get(indicators, "ema_20"),
     upper |-> GetOptional(Get(indicators, "bollinger_bands"), "upper"),
     lower |-> GetOptional(Get(indicators, "bollinger_bands"), "lower")]
CardTexts ==
    [rsi |-> RsiCard, vwap |-> VwapCard, sma_20 |-> Sma20Card, ema_20 |-> Ema20Card,
     upper |-> BollingerUpperCard, lower |-> BollingerLowerCard]

\* The texts that show the values of the feed: the RSI as a number with two
\* decimals, the others as amounts in dollars.
ShownAs ==
    [rsi |-> (5500 :> <<"5", "5", ".", "0", "0">>),
     vwap |-> (19050 :> <<"$", "1", "9", "0", ".", "5", "0">>),
     sma_20 |-> (18990 :> <<"$", "1", "8", "9", ".", "9", "0">>),
     ema_20 |-> (19010 :> <<"$", "1", "9", "0", ".", "1", "0">>),
     upper |-> (19500 :> <<"$", "1", "9", "5", ".", "0", "0">>),
     lower |-> (18500 :> <<"$", "1", "8", "5", ".", "0", "0">>)]

\* C18: every card shows the unavailable marker when its indicator is
\* absent, never a zero, and the text of the value when it is present.
AbsentIndicatorsUnavailable ==
    \A card \in DOMAIN CardTexts :
        IF CardValues[card].defined
        THEN CardTexts[card] = ShownAs[card][CardValues[card].value]
        ELSE CardTexts[card] = <<"N", "/", "A">>

\* The present values of the feed are each rendered as their text.
PresentIndicatorsShown ==
    \A card \in DOMAIN CardTexts :
        CardValues[card].defined =>
            CardTexts[card] = ShownAs[card][CardValues[card].value]

\* C20: while the component is mounted each list held (alerts, analyses,
\* meetings) is the data of the response to its fetch that arrived last,
\* whether or not that response answers a request older than one answered
\* before it; and a summarize request that succeeds while a meeting opened
\* from the history is shown replaces it with the returned summary and makes
\* results the active tab.
OpenedFromHistory == \E i \in 1..Len(meetings) : summary = meetings[i]
LastArrivalIsHeld ==
    /\ [](phase # "unmounted" =>
            /\ alerts = arrivals["GET /api/alerts"].data
            /\ recentAnalyses = arrivals["GET /api/analysis/"].data
            /\ meetings = arrivals["GET /api/meetings"].data)
    /\ [][(/\ OpenedFromHistory
           /\ SummarizeCompleted # {}
           /\ notice' \in {"success: meeting summarized", "success: file summarized"})
          => summary' \in Summaries /\ activeTab' = "results"]_vars

\* C20 witness: the meeting list fetched at the mount arrived after the list
\* fetched for the new summary: the list held is the older one, without the
\* meeting whose summary is shown.
OlderMeetingListHeld ==
    /\ arrivals["GET /api/meetings"].stale
    /\ meetings = <<[id |-> 1, title |-> "Q2"]>>
    /\ summary = [id |-> 2, title |-> "Q3"] /\ activeTab = "results"
    /\ InFlight("GET /api/meetings") = 0

(***************************************************************************)
(* Properties of the Current Price card.                                   *)
(***************************************************************************)
\* C21: the trend icon compares the price of the current quote with the
\* price of the second-to-last sample of the history: it is the increase
\* icon when the current price is greater, the decrease icon when it is
\* lower, the neutral icon when the history has no second-to-last sample,
\* and not the increase icon when the two prices are equal.
TrendFollowsSecondToLast ==
    IF Len(priceHistory) < 2 THEN TrendIcon = "Activity"
    ELSE LET previous == priceHistory[Len(priceHistory) - 1].price
             current == currentData.price
         IN  /\ current > previous => TrendIcon = "TrendingUp"
             /\ current < previous => TrendIcon = "TrendingDown"
             /\ current = previous => TrendIcon # "TrendingUp"

\* The window is full of quotes at 191.23 and the next one, at 190.00, has
\* just been handled: the card shows a decrease.
DecreaseShownAfterLowerQuote ==
    /\ Len(priceHistory) = HistoryCap
    /\ priceHistory[HistoryCap - 1].price = 19123
    /\ priceHistory[HistoryCap].price = 19000
    /\ currentData # Null /\ currentData.price = 19000
    /\ TrendIcon = "TrendingDown"

(***************************************************************************)
(* Properties that tie the data shown to the selected symbol.              *)
(***************************************************************************)
\* C22: the data held for display belongs to the selected symbol: in every
\* reachable state the current quote is a market_data of the selected
\* symbol; a change of the selected symbol leaves no sample in the price
\* history and no indicator of the symbol before; and an alert is submitted
\* with the symbol of the quote that its current_price is taken from.
HeldDataOfSelectedSymbol ==
    /\ [](currentData # Null => currentData.symbol = selectedSymbol)
    /\ [][selectedSymbol' # selectedSymbol =>
            /\ currentData' = Null
            /\ priceHistory' = <<>>
            /\ indicators' = EmptyObject]_vars
    /\ [][\A r \in Issued("POST /api/alerts") :
            /\ r.arg.current_price = currentData.price
            /\ r.arg.symbol = currentData.symbol]_vars

(***************************************************************************)
(* Properties of the connected indicator and of the reconnect timers.      *)
(***************************************************************************)
\* C23: while the component is mounted and between commits, isConnected is
\* true exactly when the socket held in wsRef is open.
ConnectedIffActiveOpen ==
    phase = "idle" =>
        (isConnected <=> (wsRef # 0 /\ sockets[wsRef].readyState = "OPEN"))

\* C24: in every reachable state at most one reconnect timer is pending,
\* and a pending timer is the one that reconnectTimeoutRef holds.
OnePendingTimerHeldInRef ==
    /\ Cardinality(PendingTimeouts(timeouts)) <= 1
    /\ \A t \in PendingTimeouts(timeouts) : reconnectTimeoutRef = t

(***************************************************************************)
(* Properties of the analysis history.                                     *)
(***************************************************************************)
\* C25: every GET /api/analysis/{symbol} that a step issues, at the mount
\* or on an ai_analysis message, is for the symbol selected at that step.
AnalysesRequestedForSelected ==
    [][\A r \in Issued("GET /api/analysis/") : r.arg.symbol = selectedSymbol]_vars

(***************************************************************************)
(* Properties of the summarizer's validation.                              *)
(***************************************************************************)
\* A text that is empty or made of white space only.
Blank(text) == \A i \in 1..Len(text) : text[i] = " "

\* C26: while the title or the content is blank no step issues a POST
\* /api/summarize-text, and while the title is blank or no file is selected
\* no step issues a POST /api/summarize-file; the step in which a handler
\* rejects (the one raising its error notification) issues no request and
\* changes nothing but the notification: the loading flag, the summary, the
\* tab, the form fields and the meeting list stay as they are.
SubmissionValidatedFirst ==
    [][/\ (Blank(meetingTitle) \/ Blank(meetingContent)) =>
              Issued("POST /api/summarize-text") = {}
       /\ (Blank(meetingTitle) \/ selectedFile = Null) =>
              Issued("POST /api/summarize-file") = {}
       /\ notice' \in {"error: provide both title and content",
                       "error: provide both title and file"} =>
              /\ inflight' = inflight
              /\ UNCHANGED <<summarizerVars, uiVars, phase>>]_vars

\* C26 witness: handleTextSummary has just rejected a title of white space
\* entered with a content; no request was made and the form is as it was.
BlankTitleRejected ==
    /\ notice = "error: provide both title and content"
    /\ meetingTitle = <<" ">> /\ meetingContent = <<"o", "k">>
    /\ NumSummarizing = 0 /\ ~isLoading
    /\ summary = Null /\ activeTab = "summarize"
====
